---------------------------- MODULE Spec2Model ----------------------------
(***************************************************************************)
(* Model of the udvoe rule-specification loader (rule_spec_loader.py) and  *)
(* of the SimpleRuleEngine (rule_engine.py).                               *)
(*                                                                         *)
(* Text is modelled character by character: a string is a sequence of      *)
(* one-character strings, a document is such a sequence with "\n" ending   *)
(* each line.  A parsed value is a tagged record: [t |-> "str", v |-> s],  *)
(* [t |-> "list", v |-> items], [t |-> "map", v |-> pairs], where a Python *)
(* dict is the sequence of its [k, v] pairs in insertion order.            *)
(***************************************************************************)
EXTENDS Integers, Sequences, FiniteSets, TLC

VARIABLES
    content,    \* loader: the text handed to load_rule_spec / parse_yaml
    payload,    \* loader: the mapping handed to validate_rule_spec
    parsed,     \* loader: outcome of parse_yaml (value tree or error, with its trace)
    result,     \* loader: outcome of validate_rule_spec (RuleSpec or error)
    value,      \* scalar decoder: the string handed to _parse_scalar
    decoded,    \* scalar decoder: what _parse_scalar returned
    items,      \* scalar decoder: the three list-item parses of the string
    _rules,     \* engine: SimpleRuleEngine._rules
    calls,      \* engine: the rule sequences handed to __init__ and register_rules, in call order
    batch,      \* engine: the batch of the last validate call
    results,    \* engine: what the last validate call returned
    op          \* the last operation called

vars == <<content, payload, parsed, result, value, decoded, items,
          _rules, calls, batch, results, op>>

loaderVars == <<content, payload, parsed, result>>
scalarVars == <<value, decoded, items>>
engineVars == <<_rules, calls, batch, results>>

-----------------------------------------------------------------------------
(* Bounds of the model *)

\* lines appended after a document's header
MaxBody == 3
\* length of the strings handed to the scalar decoder
MaxStrLen == 3
\* entries of a directly supplied validations list
MaxValidations == 2
\* register_rules calls on one engine
MaxRegister == 2

-----------------------------------------------------------------------------
(* Python string operations, on sequences of characters *)

None == [t |-> "none", v |-> <<>>]

Str(s) == [t |-> "str", v |-> s]

IsWhitespace(c) == c \in {" ", "\t", "\n"}

\* s[a:] for a >= 0
SliceFrom(s, a) == SubSeq(s, a + 1, Len(s))

\* str.lstrip(" ")
LStripSpaces(s) ==
    LET n == CHOOSE n \in 0..Len(s) :
                 /\ \A i \in 1..n : s[i] = " "
                 /\ n = Len(s) \/ s[n + 1] # " "
    IN  SliceFrom(s, n)

\* str.lstrip()
LStrip(s) ==
    LET n == CHOOSE n \in 0..Len(s) :
                 /\ \A i \in 1..n : IsWhitespace(s[i])
                 /\ n = Len(s) \/ ~IsWhitespace(s[n + 1])
    IN  SliceFrom(s, n)

\* str.rstrip()
RStrip(s) ==
    LET n == CHOOSE n \in 0..Len(s) :
                 /\ \A i \in (n + 1)..Len(s) : IsWhitespace(s[i])
                 /\ n = 0 \/ ~IsWhitespace(s[n])
    IN  SubSeq(s, 1, n)

\* str.strip()
Strip(s) == LStrip(RStrip(s))

\* str.startswith(c) and str.endswith(c) for a one-character c
StartsWith(s, c) == Len(s) >= 1 /\ s[1] = c

EndsWith(s, c) == Len(s) >= 1 /\ s[Len(s)] = c

\* c in s
Contains(s, c) == \E i \in 1..Len(s) : s[i] = c

\* s.split(c, 1) when c is in s: <<before the first c, after it>>
SplitFirst(s, c) ==
    LET i == CHOOSE i \in 1..Len(s) : s[i] = c /\ \A j \in 1..(i - 1) : s[j] # c
    IN  <<SubSeq(s, 1, i - 1), SubSeq(s, i + 1, Len(s))>>

\* str.splitlines(), for the line boundary "\n"
RECURSIVE SplitLines(_)
SplitLines(text) ==
    IF text = <<>> THEN <<>>
    ELSE IF Contains(text, "\n")
         THEN LET parts == SplitFirst(text, "\n")
              IN  <<parts[1]>> \o SplitLines(parts[2])
         ELSE <<text>>

\* sep.join(parts)
RECURSIVE Join(_, _)
Join(sep, parts) ==
    IF parts = <<>> THEN <<>>
    ELSE IF Len(parts) = 1 THEN parts[1]
    ELSE parts[1] \o sep \o Join(sep, Tail(parts))

\* the characters of the field names, in code point order
CodePoints == <<"_", "a", "c", "d", "e", "i", "l", "n", "o", "r", "s", "t", "u", "v">>

Ord(c) == CHOOSE i \in 1..Len(CodePoints) : CodePoints[i] = c

\* a < b for Python strings
RECURSIVE StrLess(_, _)
StrLess(a, b) ==
    IF b = <<>> THEN FALSE
    ELSE IF a = <<>> THEN TRUE
    ELSE IF a[1] = b[1] THEN StrLess(Tail(a), Tail(b))
    ELSE Ord(a[1]) < Ord(b[1])

\* the names left in the order found
Sorted_AsFound(names) == names

\* sorted(names)
RECURSIVE Sorted(_)
Sorted(names) ==
    IF names = <<>> THEN <<>>
    ELSE LET rest == Sorted(Tail(names))
             n == Cardinality({i \in 1..Len(rest) : StrLess(rest[i], Head(names))})
         IN  SubSeq(rest, 1, n) \o <<Head(names)>> \o SubSeq(rest, n + 1, Len(rest))

-----------------------------------------------------------------------------
(* Python dict operations, on sequences of [k, v] pairs *)

\* key in mapping
HasKey(mapping, key) == \E i \in 1..Len(mapping) : mapping[i].k = key

\* mapping.get(key)
Get(mapping, key) ==
    IF HasKey(mapping, key)
    THEN mapping[CHOOSE i \in 1..Len(mapping) : mapping[i].k = key].v
    ELSE None

\* mapping[key] = val
Put(mapping, key, val) ==
    IF HasKey(mapping, key)
    THEN [i \in 1..Len(mapping) |->
             IF mapping[i].k = key THEN [k |-> key, v |-> val] ELSE mapping[i]]
    ELSE Append(mapping, [k |-> key, v |-> val])

\* 'version'
K_version ==
    <<"v", "e", "r", "s", "i", "o", "n">>
\* 'data_source'
K_data_source ==
    <<"d", "a", "t", "a", "_", "s", "o", "u", "r", "c", "e">>
\* 'validations'
K_validations ==
    <<"v", "a", "l", "i", "d", "a", "t", "i", "o", "n", "s">>
\* 'version: 1.0'
L_version ==
    <<"v", "e", "r", "s", "i", "o", "n", ":", " ", "1", ".", "0">>
\* 'data_source: orders'
L_data_source ==
    <<"d", "a", "t", "a", "_", "s", "o", "u", "r", "c", "e", ":", " ", "o", "r", "d", "e", "r", "s">>
\* 'validations:'
L_validations ==
    <<"v", "a", "l", "i", "d", "a", "t", "i", "o", "n", "s", ":">>
\* '# rules'
L_comment ==
    <<"#", " ", "r", "u", "l", "e", "s">>
\* '   '
L_blank ==
    <<" ", " ", " ">>
\* 'validations:  '
L_validations_ws ==
    <<"v", "a", "l", "i", "d", "a", "t", "i", "o", "n", "s", ":", " ", " ">>
\* '  - not_null: id'
L_item_inline ==
    <<" ", " ", "-", " ", "n", "o", "t", "_", "n", "u", "l", "l", ":", " ", "i", "d">>
\* '  -'
L_item_open ==
    <<" ", " ", "-">>
\* '    not_null: id'
L_kv4 ==
    <<" ", " ", " ", " ", "n", "o", "t", "_", "n", "u", "l", "l", ":", " ", "i", "d">>
\* '    k:'
L_key4 ==
    <<" ", " ", " ", " ", "k", ":">>
\* '      - x'
L_dash6 ==
    <<" ", " ", " ", " ", " ", " ", "-", " ", "x">>
\* '      a: b'
L_kv6 ==
    <<" ", " ", " ", " ", " ", " ", "a", ":", " ", "b">>
\* '      - p: q'
L_dash6_kv ==
    <<" ", " ", " ", " ", " ", " ", "-", " ", "p", ":", " ", "q">>
\* '   - x'
L_item_odd ==
    <<" ", " ", " ", "-", " ", "x">>
\* '   a: b'
L_kv_odd ==
    <<" ", " ", " ", "a", ":", " ", "b">>
\* 'owner: bob'
L_owner ==
    <<"o", "w", "n", "e", "r", ":", " ", "b", "o", "b">>
\* 'meta:'
L_meta ==
    <<"m", "e", "t", "a", ":">>
\* '  a: b'
L_kv2 ==
    <<" ", " ", "a", ":", " ", "b">>
\* '1.0'
S_1_0 ==
    <<"1", ".", "0">>
\* 'orders'
S_orders ==
    <<"o", "r", "d", "e", "r", "s">>
\* 'not_null'
S_not_null ==
    <<"n", "o", "t", "_", "n", "u", "l", "l">>
\* 'id'
S_id ==
    <<"i", "d">>
\* 'owner'
S_owner ==
    <<"o", "w", "n", "e", "r">>
\* 'bob'
S_bob ==
    <<"b", "o", "b">>
\* 'k'
S_k ==
    <<"k">>
\* 'a'
S_a ==
    <<"a">>
\* 'b'
S_b ==
    <<"b">>
\* 'x'
S_x ==
    <<"x">>
\* 'meta'
S_meta ==
    <<"m", "e", "t", "a">>
-----------------------------------------------------------------------------
(* Outcomes.  A parse outcome carries the trace of the call: the cursors    *)
(* read (line = lines[index]), the cursors of the lines taken into the      *)
(* tree, the (function, start) of every call made, the (function, start,    *)
(* returned cursor) of every call that returned and the (cursor before,     *)
(* cursor after) of every top-level iteration.                              *)

EmptyTrace ==
    [reads |-> <<>>, accepted |-> <<>>, entered |-> <<>>, returns |-> <<>>,
     iterations |-> <<>>]

Read(tr, index) == [tr EXCEPT !.reads = Append(@, index)]

Accept(tr, index) == [tr EXCEPT !.accepted = Append(@, index)]

Entered(tr, fn, start) ==
    [tr EXCEPT !.entered = Append(@, [fn |-> fn, start |-> start])]

Returned(tr, fn, start, index) ==
    [tr EXCEPT !.returns = Append(@, [fn |-> fn, start |-> start, index |-> index])]

Iterated(tr, from, to) ==
    [tr EXCEPT !.iterations = Append(@, [from |-> from, to |-> to])]

\* raise RuleSpecParseError(msg), with the line the message quotes
RuleSpecParseError(msg, line, tr) ==
    [ok |-> FALSE, error |-> "RuleSpecParseError", msg |-> msg, arg |-> line,
     value |-> None, index |-> 0, trace |-> tr]

\* return value, index
Parsed(val, index, tr) ==
    [ok |-> TRUE, error |-> "", msg |-> "", arg |-> <<>>,
     value |-> val, index |-> index, trace |-> tr]

-----------------------------------------------------------------------------
(* rule_spec_loader.py: the parser *)

_strip_empty_and_comment_lines(lines) ==
    LET raw == [i \in 1..Len(lines) |-> RStrip(lines[i])]
        keep(i) == raw[i] # <<>> /\ ~StartsWith(LStrip(raw[i]), "#")
        kept == {i \in 1..Len(lines) : keep(i)}
        \* the kept lines in their original order
        nth(k) == CHOOSE i \in kept : Cardinality({j \in kept : j < i}) = k - 1
    IN  [k \in 1..Cardinality(kept) |-> raw[nth(k)]]

\* single quotes left alone
_parse_scalar_DoubleOnly(s) ==
    IF StartsWith(s, "\"") /\ EndsWith(s, "\"") THEN SubSeq(s, 2, Len(s) - 1) ELSE s

_parse_scalar(s) ==
    IF StartsWith(s, "\"") /\ EndsWith(s, "\"") THEN SubSeq(s, 2, Len(s) - 1)
    ELSE IF StartsWith(s, "'") /\ EndsWith(s, "'") THEN SubSeq(s, 2, Len(s) - 1)
    ELSE s

\* len(line) - len(line.lstrip(" "))
IndentOf(line) == Len(line) - Len(LStripSpaces(line))

_parse_mapping_line(line) ==
    IF ~Contains(line, ":")
    THEN [ok |-> FALSE, msg |-> "Invalid mapping line", key |-> <<>>,
          value |-> None, indent |-> 0]
    ELSE LET indent == IndentOf(line)
             parts == SplitFirst(line, ":")
             key == Strip(parts[1])
             remainder == Strip(parts[2])
         IN  IF key = <<>>
             THEN [ok |-> FALSE, msg |-> "Empty key in line", key |-> <<>>,
                   value |-> None, indent |-> 0]
             ELSE IF remainder = <<>>
             THEN [ok |-> TRUE, msg |-> "", key |-> key, value |-> None,
                   indent |-> indent]
             ELSE [ok |-> TRUE, msg |-> "", key |-> key,
                   value |-> Str(_parse_scalar(remainder)), indent |-> indent]

RECURSIVE _parse_nested_mapping(_, _, _, _)
RECURSIVE _parse_list(_, _, _, _)
RECURSIVE NestedMappingLoop(_, _, _, _, _, _)
RECURSIVE ListLoop(_, _, _, _, _, _)

\* a block of "-" lines under the key routed into the list parser
NestedValue_ListAware(lines, index, indent, tr) ==
    IF index + 1 < Len(lines) /\ StartsWith(LStrip(lines[index + 2]), "-")
    THEN _parse_list(lines, index + 1, indent + 2, tr)
    ELSE _parse_nested_mapping(lines, index + 1, indent + 2, tr)

\* the value stored for a key whose inline value is absent
NestedValue(lines, index, indent, tr) ==
    _parse_nested_mapping(lines, index + 1, indent + 2, tr)

\* the empty-block test left out
NestedMappingResult_EmptyAllowed(mapping, start, index, tr) ==
    Parsed([t |-> "map", v |-> mapping], index,
           Returned(tr, "_parse_nested_mapping", start, index))

\* what _parse_nested_mapping does once its loop has ended
NestedMappingResult(mapping, start, index, tr) ==
    IF mapping = <<>>
    THEN RuleSpecParseError("Expected a mapping block but found none.", <<>>, tr)
    ELSE Parsed([t |-> "map", v |-> mapping], index,
                Returned(tr, "_parse_nested_mapping", start, index))

\* the while loop of _parse_nested_mapping
NestedMappingLoop(lines, start, index, indent, mapping, tr) ==
    LET Finish(t) == NestedMappingResult(mapping, start, index, t)
    IN  IF ~(index < Len(lines)) THEN Finish(tr)
        ELSE LET line == lines[index + 1]
                 t1 == Read(tr, index)
                 line_indent == IndentOf(line)
             IN  IF line_indent < indent THEN Finish(t1)
                 ELSE IF line_indent # indent
                 THEN RuleSpecParseError("Unexpected indentation at line", line, t1)
                 ELSE LET ml == _parse_mapping_line(line)
                      IN  IF ~ml.ok THEN RuleSpecParseError(ml.msg, line, t1)
                          ELSE IF ml.value = None
                          THEN LET sub == NestedValue(lines, index, indent, Accept(t1, index))
                               IN  IF ~sub.ok THEN sub
                                   ELSE NestedMappingLoop(lines, start, sub.index, indent,
                                            Put(mapping, ml.key, sub.value), sub.trace)
                          ELSE NestedMappingLoop(lines, start, index + 1, indent,
                                   Put(mapping, ml.key, ml.value), Accept(t1, index))

_parse_nested_mapping(lines, start, indent, tr) ==
    NestedMappingLoop(lines, start, start, indent, <<>>,
                      Entered(tr, "_parse_nested_mapping", start))

\* the "-" test left out
ListTakes_AnyLine(line, indent) == ~(IndentOf(line) < indent)

\* the two tests of _parse_list that let a line into the list
ListTakes(line, indent) ==
    /\ ~(IndentOf(line) < indent)
    /\ StartsWith(LStrip(line), "-")

\* line[indent - 2 :].lstrip()[1:].strip()
ItemContent(line, indent) ==
    Strip(SliceFrom(LStrip(SliceFrom(line, indent - 2)), 1))

\* the while loop of _parse_list and what follows it
ListLoop(lines, start, index, indent, acc, tr) ==
    LET Finish(t) ==
            IF acc = <<>>
            THEN RuleSpecParseError("Expected at least one list item.", <<>>, t)
            ELSE Parsed([t |-> "list", v |-> acc], index,
                        Returned(t, "_parse_list", start, index))
    IN  IF ~(index < Len(lines)) THEN Finish(tr)
        ELSE LET line == lines[index + 1]
                 t1 == Read(tr, index)
             IN  IF ~ListTakes(line, indent) THEN Finish(t1)
                 ELSE LET item_content == ItemContent(line, indent)
                      IN  IF item_content # <<>>
                          THEN ListLoop(lines, start, index + 1, indent,
                                   Append(acc, Str(_parse_scalar(item_content))),
                                   Accept(t1, index))
                          ELSE LET sub == _parse_nested_mapping(lines, index + 1, indent + 2,
                                              Accept(t1, index))
                               IN  IF ~sub.ok THEN sub
                                   ELSE ListLoop(lines, start, sub.index, indent,
                                            Append(acc, sub.value), sub.trace)

_parse_list(lines, start, indent, tr) ==
    ListLoop(lines, start, start, indent, <<>>, Entered(tr, "_parse_list", start))

RECURSIVE TopLoop(_, _, _, _)
\* the while loop of parse_yaml and the return after it
TopLoop(lines, index, mapping, tr) ==
    IF ~(index < Len(lines)) THEN Parsed([t |-> "map", v |-> mapping], index, tr)
    ELSE LET line == lines[index + 1]
             t1 == Read(tr, index)
         IN  IF StartsWith(line, "-")
             THEN RuleSpecParseError("Top-level YAML must be a mapping.", <<>>, t1)
             ELSE LET ml == _parse_mapping_line(line)
                  IN  IF ~ml.ok THEN RuleSpecParseError(ml.msg, line, t1)
                      ELSE IF ml.indent # 0
                      THEN RuleSpecParseError("Top-level keys must not be indented.", <<>>, t1)
                      ELSE IF ml.value = None
                      THEN LET sub == IF ml.key = K_validations
                                      THEN _parse_list(lines, index + 1, ml.indent + 2,
                                                     Accept(t1, index))
                                      ELSE _parse_nested_mapping(lines, index + 1, ml.indent + 2,
                                                              Accept(t1, index))
                           IN  IF ~sub.ok THEN sub
                               ELSE TopLoop(lines, sub.index, Put(mapping, ml.key, sub.value),
                                            Iterated(sub.trace, index, sub.index))
                      ELSE TopLoop(lines, index + 1, Put(mapping, ml.key, ml.value),
                                   Iterated(Accept(t1, index), index, index + 1))

parse_yaml(text) ==
    LET lines == _strip_empty_and_comment_lines(SplitLines(text))
    IN  IF lines = <<>> THEN RuleSpecParseError("YAML content is empty.", <<>>, EmptyTrace)
        ELSE TopLoop(lines, 0, <<>>, EmptyTrace)

-----------------------------------------------------------------------------
(* rule_spec_loader.py: the validator *)

required == <<K_version, K_data_source, K_validations>>

\* raise RuleSpecValidationError(msg): names is the text the message names
\* fields with, position the index it names
RuleSpecValidationError(msg, names, position) ==
    [ok |-> FALSE, error |-> "RuleSpecValidationError", msg |-> msg,
     names |-> names, position |-> position, spec |-> None]

RuleSpec(version, data_source, validations, metadata) ==
    [ok |-> TRUE, error |-> "", msg |-> "", names |-> <<>>, position |-> 0,
     spec |-> [version |-> version, data_source |-> data_source,
               validations |-> validations, metadata |-> metadata]]

\* [field for field in required if field not in payload]
Missing(p) == SelectSeq(required, LAMBDA field : ~HasKey(p, field))

\* the test of _require_string
IsNonEmptyString(val) == val.t = "str" /\ val.v # <<>>

\* the test of _require_list
IsList(val) == val.t = "list"

\* the entry test left out
IsMapping_AnyEntry(val) == TRUE

\* isinstance(validation, Mapping)
IsMapping(val) == val.t = "map"

\* {key: value for key, value in payload.items() if key not in required}
Metadata(p) ==
    SelectSeq(p, LAMBDA pair : \A i \in 1..Len(required) : required[i] # pair.k)

validate_rule_spec(p) ==
    LET missing == Missing(p)
        version == Get(p, K_version)
        data_source == Get(p, K_data_source)
        validations == Get(p, K_validations)
    IN  IF missing # <<>>
        THEN RuleSpecValidationError("Missing required field(s)",
                             Join(<<",", " ">>, Sorted(missing)), 0)
        ELSE IF ~IsNonEmptyString(version)
        THEN RuleSpecValidationError("must be a non-empty string", K_version, 0)
        ELSE IF ~IsNonEmptyString(data_source)
        THEN RuleSpecValidationError("must be a non-empty string", K_data_source, 0)
        ELSE IF ~IsList(validations)
        THEN RuleSpecValidationError("must be a list", K_validations, 0)
        ELSE IF validations.v = <<>>
        THEN RuleSpecValidationError("The validations list must not be empty.", <<>>, 0)
        ELSE IF \E i \in 1..Len(validations.v) : ~IsMapping(validations.v[i])
        THEN RuleSpecValidationError("Validation entry must be a mapping", <<>>,
                 (CHOOSE i \in 1..Len(validations.v) :
                     /\ ~IsMapping(validations.v[i])
                     /\ \A j \in 1..(i - 1) : IsMapping(validations.v[j])) - 1)
        ELSE RuleSpec(version, data_source, validations.v, Metadata(p))

-----------------------------------------------------------------------------
(* The documents and payloads the loader is run on *)

RECURSIVE Text(_)
\* the file holding the given lines, each ended by a line break
Text(lines) ==
    IF lines = <<>> THEN <<>> ELSE Head(lines) \o <<"\n">> \o Text(Tail(lines))

Headers ==
    { <<>>,
      <<L_version, L_data_source>>,
      <<L_version, L_data_source, L_validations>>,
      <<L_validations>>,
      <<L_comment, L_version, L_blank, L_data_source, L_validations_ws>> }

BodyLines ==
    { L_item_inline, L_item_open, L_kv4, L_key4, L_dash6, L_dash6_kv, L_kv6,
      L_item_odd, L_kv_odd, L_owner, L_meta, L_kv2 }

RECURSIVE SeqsUpTo(_, _)
\* the sequences over S of length at most n
SeqsUpTo(S, n) ==
    IF n = 0 THEN {<<>>}
    ELSE LET shorter == SeqsUpTo(S, n - 1)
         IN  shorter \cup {Append(s, x) : s \in shorter, x \in S}

Documents == {Text(h \o b) : h \in Headers, b \in SeqsUpTo(BodyLines, MaxBody)}

Absent == [t |-> "absent", v |-> <<>>]

\* a value that is neither a string, a list nor a mapping (a number, None)
Other == [t |-> "other", v |-> <<>>]

Directive == [t |-> "map", v |-> <<[k |-> S_not_null, v |-> Str(S_id)]>>]

VersionChoices == {Absent, Str(S_1_0), Str(<<>>), Other}

DataSourceChoices == {Absent, Str(S_orders), Str(<<>>), [t |-> "list", v |-> <<>>]}

EntryChoices == {Directive, Str(S_x), [t |-> "list", v |-> <<Str(S_x)>>]}

ValidationsChoices ==
    {Absent, Str(S_x), Directive}
        \cup {[t |-> "list", v |-> s] : s \in SeqsUpTo(EntryChoices, MaxValidations)}

OwnerChoices == {Absent, Str(S_bob)}

\* the dict holding the chosen fields, the absent ones left out
Dict(pairs) == SelectSeq(pairs, LAMBDA pair : pair.v # Absent)

Payloads ==
    { Dict(<<[k |-> S_owner, v |-> o], [k |-> K_version, v |-> ver],
             [k |-> K_data_source, v |-> ds], [k |-> K_validations, v |-> vals]>>) :
        o \in OwnerChoices, ver \in VersionChoices,
        ds \in DataSourceChoices, vals \in ValidationsChoices }

-----------------------------------------------------------------------------
(* The loader as a state machine: an input, then one call on it *)

Unset == [t |-> "unset", v |-> <<>>]

LoaderIdle == content = <<>> /\ payload = <<>> /\ parsed = Unset /\ result = Unset

ScalarIdle == value = <<>> /\ decoded = Unset /\ items = Unset

EngineIdle == _rules = <<>> /\ calls = <<>> /\ batch = "" /\ results = <<>>

Init ==
    /\ \/ op = "text" /\ content \in Documents /\ payload = <<>>
       \/ op = "payload" /\ content = <<>> /\ payload \in Payloads
    /\ parsed = Unset
    /\ result = Unset
    /\ ScalarIdle
    /\ EngineIdle

\* load_rule_spec(path) on a file holding content: parse_yaml, then
\* validate_rule_spec on the tree unless the parse raised
load_rule_spec ==
    /\ op = "text"
    /\ op' = "load_rule_spec"
    /\ parsed' = parse_yaml(content)
    /\ payload' = IF parsed'.ok THEN parsed'.value.v ELSE <<>>
    /\ result' = IF parsed'.ok THEN validate_rule_spec(parsed'.value.v)
                 ELSE [ok |-> FALSE, error |-> parsed'.error, msg |-> parsed'.msg,
                       names |-> <<>>, position |-> 0, spec |-> None]
    /\ UNCHANGED <<content, scalarVars, engineVars>>

\* validate_rule_spec(payload)
CallValidateRuleSpec ==
    /\ op = "payload"
    /\ op' = "validate_rule_spec"
    /\ result' = validate_rule_spec(payload)
    /\ UNCHANGED <<content, payload, parsed, scalarVars, engineVars>>

Next == load_rule_spec \/ CallValidateRuleSpec

Spec == Init /\ [][Next]_vars

-----------------------------------------------------------------------------
(* The scalar decoder on its own, and on the three spellings of a list item *)

ScalarAlphabet == {"\"", "'", "a", " "}

Strings == SeqsUpTo(ScalarAlphabet, MaxStrLen)

\* what the callers of _parse_scalar hand it: stripped and not empty
IsTrimmed(s) == s # <<>> /\ Strip(s) = s

\* the document whose validations list holds the one item line "  - " + text
ItemDocument(text) == Text(<<L_validations, <<" ", " ", "-", " ">> \o text>>)

InitScalar ==
    /\ value \in Strings
    /\ decoded = Unset
    /\ items = Unset
    /\ op = "given"
    /\ LoaderIdle
    /\ EngineIdle

\* _parse_scalar(value)
Decode ==
    /\ decoded = Unset
    /\ IsTrimmed(value)
    /\ decoded' = Str(_parse_scalar(value))
    /\ op' = "_parse_scalar"
    /\ UNCHANGED <<value, items, loaderVars, engineVars>>

\* parse_yaml on the item written bare, single-quoted and double-quoted
ParseItems ==
    /\ items = Unset
    /\ items' = [bare |-> parse_yaml(ItemDocument(value)),
                 single |-> parse_yaml(ItemDocument(<<"'">> \o value \o <<"'">>)),
                 double |-> parse_yaml(ItemDocument(<<"\"">> \o value \o <<"\"">>))]
    /\ op' = "parse_yaml"
    /\ UNCHANGED <<value, decoded, loaderVars, engineVars>>

NextScalar == Decode \/ ParseItems

SpecScalar == InitScalar /\ [][NextScalar]_vars

-----------------------------------------------------------------------------
(* rule_engine.py: SimpleRuleEngine, over rules whose applies_to and        *)
(* validate are fixed functions of the batch                                *)

Batches == {"batch-1", "batch-2"}

\* a rule applies to the batches in applies and yields yields results
NotNull == [rule_id |-> "not-null", applies |-> Batches, yields |-> 1]

OnlyFirst == [rule_id |-> "only-first", applies |-> {"batch-1"}, yields |-> 2]

Never == [rule_id |-> "never", applies |-> {}, yields |-> 1]

\* the rule sequences handed to __init__ and register_rules
RuleArguments ==
    {<<>>, <<NotNull>>, <<OnlyFirst, NotNull>>, <<Never, OnlyFirst>>, <<NotNull, Never>>}

\* rule.applies_to(batch)
AppliesTo(rule, b) == b \in rule.applies

\* rule.validate(batch=batch)
RuleValidate(rule, b) ==
    [n \in 1..rule.yields |-> [rule_id |-> rule.rule_id, batch_id |-> b, number |-> n]]

\* the new rules put in front
extend_InFront(registered, more) == more \o registered

\* self._rules.extend(rules)
extend(registered, more) == registered \o more

RECURSIVE validate_loop(_, _)
\* the loop of SimpleRuleEngine.validate over the rules still to visit
validate_loop(registered, b) ==
    IF registered = <<>> THEN <<>>
    ELSE (IF AppliesTo(Head(registered), b)
          THEN RuleValidate(Head(registered), b) ELSE <<>>)
         \o validate_loop(Tail(registered), b)

\* SimpleRuleEngine(rules)
InitEngine ==
    /\ \E given \in RuleArguments :
          /\ _rules = given
          /\ calls = <<given>>
    /\ batch = ""
    /\ results = <<>>
    /\ op = "__init__"
    /\ LoaderIdle
    /\ ScalarIdle

\* engine.register_rules(rules)
register_rules(given) ==
    /\ Len(calls) <= MaxRegister
    /\ _rules' = extend(_rules, given)
    /\ calls' = Append(calls, given)
    /\ op' = "register_rules"
    /\ UNCHANGED <<batch, results, loaderVars, scalarVars>>

\* engine.validate(batch=b)
validate(b) ==
    /\ batch' = b
    /\ results' = validate_loop(_rules, b)
    /\ op' = "validate"
    /\ UNCHANGED <<_rules, calls, loaderVars, scalarVars>>

NextEngine ==
    \/ \E given \in RuleArguments : register_rules(given)
    \/ \E b \in Batches : validate(b)

SpecEngine == InitEngine /\ [][NextEngine]_vars

-----------------------------------------------------------------------------
(* What the claims speak about *)

\* the normalized line sequence parse_yaml works on
Lines == _strip_empty_and_comment_lines(SplitLines(content))

Loaded == op = "load_rule_spec"

Validated == op \in {"load_rule_spec", "validate_rule_spec"} /\ (Loaded => parsed.ok)

\* how often cursor c occurs in a sequence of cursors
Occurrences(cursors, c) == Cardinality({i \in 1..Len(cursors) : cursors[i] = c})

RECURSIVE HasList(_)
\* a value tree holds a sequence somewhere
HasList(val) ==
    \/ val.t = "list"
    \/ val.t = "map" /\ \E i \in 1..Len(val.v) : HasList(val.v[i].v)

Quotes == {"\"", "'"}

-----------------------------------------------------------------------------
(* C1 *)

C1_Document == Text(<<L_version, L_data_source, L_validations, L_item_inline>>)

\* C1: loading the four-line document version: 1.0 / data_source: orders /
\* validations: / "  - not_null: id" succeeds and returns version "1.0",
\* data_source "orders", validations [{"not_null": "id"}] and empty metadata.
C1_FourLineDocumentLoads ==
    (Loaded /\ content = C1_Document) =>
        /\ result.ok
        /\ result.spec = [version |-> Str(S_1_0), data_source |-> Str(S_orders),
                          validations |-> <<Directive>>, metadata |-> <<>>]

-----------------------------------------------------------------------------
(* C2 *)

\* C2: whenever load_rule_spec or validate_rule_spec returns a RuleSpec, its
\* validations hold at least one entry, every entry is a mapping, and version
\* and data_source are non-empty strings.
C2_ReturnedSpecWellFormed ==
    (Validated /\ result.ok) =>
        /\ Len(result.spec.validations) >= 1
        /\ \A i \in 1..Len(result.spec.validations) :
              result.spec.validations[i].t = "map"
        /\ result.spec.version.t = "str" /\ result.spec.version.v # <<>>
        /\ result.spec.data_source.t = "str" /\ result.spec.data_source.v # <<>>

\* a document parsed and validated into a RuleSpec with metadata
C2_Witness ==
    /\ Loaded /\ result.ok
    /\ Len(result.spec.validations) >= 1
    /\ result.spec.metadata # <<>>

-----------------------------------------------------------------------------
(* C3 *)

\* C3: a document with a line (mapping line or list-item line) whose
\* indentation lies strictly between two nesting levels, such as an odd
\* number of leading spaces, never parses: parse_yaml raises.
C3_OddIndentationRejected ==
    Loaded =>
        LET lines == Lines
        IN  (\E i \in 1..Len(lines) : IndentOf(lines[i]) % 2 = 1) => ~parsed.ok

-----------------------------------------------------------------------------
(* C4 *)

\* the required fields in alphabetical order
C4_Alphabetical == <<K_data_source, K_validations, K_version>>

C4_Present(k) == \E i \in 1..Len(payload) : payload[i].k = k

C4_Field(k) == payload[CHOOSE i \in 1..Len(payload) : payload[i].k = k].v

C4_BadString(k) == ~(C4_Field(k).t = "str" /\ Len(C4_Field(k).v) > 0)

\* <<message, what it names, index it names>> of the first failing check
C4_FirstFailure ==
    IF \E i \in 1..3 : ~C4_Present(C4_Alphabetical[i])
    THEN <<"Missing required field(s)",
           Join(<<",", " ">>, SelectSeq(C4_Alphabetical, LAMBDA k : ~C4_Present(k))), 0>>
    ELSE IF C4_BadString(K_version)
    THEN <<"must be a non-empty string", K_version, 0>>
    ELSE IF C4_BadString(K_data_source)
    THEN <<"must be a non-empty string", K_data_source, 0>>
    ELSE IF C4_Field(K_validations).t # "list"
    THEN <<"must be a list", K_validations, 0>>
    ELSE IF Len(C4_Field(K_validations).v) = 0
    THEN <<"The validations list must not be empty.", <<>>, 0>>
    ELSE LET entries == C4_Field(K_validations).v
             bad == {i \in 1..Len(entries) : entries[i].t # "map"}
         IN  IF bad # {}
             THEN <<"Validation entry must be a mapping", <<>>,
                    (CHOOSE i \in bad : \A j \in bad : i <= j) - 1>>
             ELSE <<"", <<>>, 0>>

\* C4: validate_rule_spec reports the first failing check only, in the order
\* missing fields (all of them, sorted, comma-joined), version, data_source,
\* validations not a list, validations empty, first non-mapping entry.
C4_FirstFailingCheckReported ==
    Validated =>
        /\ <<result.msg, result.names, result.position>> = C4_FirstFailure
        /\ result.ok <=> C4_FirstFailure[1] = ""
        /\ ~result.ok => result.error = "RuleSpecValidationError"

\* a payload failing four checks at once, reported as the first of them
C4_Witness ==
    /\ op = "validate_rule_spec"
    /\ C4_Present(K_version) /\ C4_Present(K_data_source) /\ C4_Present(K_validations)
    /\ C4_BadString(K_version) /\ C4_BadString(K_data_source)
    /\ C4_Field(K_validations).t # "list"
    /\ result.names = K_version

-----------------------------------------------------------------------------
(* C5 *)

\* no list item can be taken at cursor c of lines
C5_NoItemAt(lines, c) ==
    \/ ~(c < Len(lines))
    \/ IndentOf(lines[c + 1]) < 2
    \/ ~StartsWith(LStrip(lines[c + 1]), "-")

\* parse_yaml reached a root key validations with no inline value, and no
\* list item follows it
C5_EmptyValidations ==
    LET lines == Lines
    IN  \E i \in 1..Len(parsed.trace.entered) :
            /\ parsed.trace.entered[i].fn = "_parse_list"
            /\ C5_NoItemAt(lines, parsed.trace.entered[i].start)

\* C5: when the root key validations has no inline value and no list item is
\* taken after it, parse_yaml raises "Expected at least one list item."; no
\* tree parse_yaml returns maps validations to an empty list.
C5_EmptyListRaises ==
    Loaded =>
        /\ C5_EmptyValidations =>
              ~parsed.ok /\ parsed.error = "RuleSpecParseError"
                         /\ parsed.msg = "Expected at least one list item."
        /\ parsed.ok => Get(parsed.value.v, K_validations) # [t |-> "list", v |-> <<>>]

\* validations: followed by a line indented enough that is no list item
C5_Witness ==
    /\ Loaded /\ C5_EmptyValidations /\ ~parsed.ok
    /\ LET lines == Lines
       IN  \E i \in 1..Len(parsed.trace.entered) :
               LET c == parsed.trace.entered[i].start
               IN  c < Len(lines) /\ IndentOf(lines[c + 1]) >= 2

-----------------------------------------------------------------------------
(* C6 *)

\* parse_yaml took the item line as one scalar item of validations
C6_ScalarItem(r) ==
    /\ r.ok
    /\ Len(r.value.v) = 1
    /\ r.value.v[1].k = K_validations
    /\ r.value.v[1].v.t = "list"
    /\ Len(r.value.v[1].v.v) = 1
    /\ r.value.v[1].v.v[1].t = "str"

C6_Item(r) == r.value.v[1].v.v[1].v

C6_AllDecodeTo(c) ==
    /\ C6_ScalarItem(items.bare) /\ C6_Item(items.bare) = c
    /\ C6_ScalarItem(items.single) /\ C6_Item(items.single) = c
    /\ C6_ScalarItem(items.double) /\ C6_Item(items.double) = c

\* C6 as claimed: for every content string c the item lines - c, - 'c' and
\* - "c" are each taken as a scalar item and all three decode to c.
C6_EveryContentDecodesAlike == items # Unset => C6_AllDecodeTo(value)

\* c is not empty, has no whitespace at either end and is not itself wrapped
\* in a pair of equal quote characters
C6_Plain(c) ==
    /\ c # <<>>
    /\ ~IsWhitespace(c[1]) /\ ~IsWhitespace(c[Len(c)])
    /\ ~(c[1] \in Quotes /\ c[Len(c)] = c[1])

\* C6 amended: for every non-empty content string c without leading or
\* trailing whitespace that does not begin and end with the same quote
\* character, - c, - 'c' and - "c" are each taken as a scalar item and all
\* three decode to c.
C6_PlainContentDecodesAlike ==
    (items # Unset /\ C6_Plain(value)) => C6_AllDecodeTo(value)

\* a plain content string holding a quote character and inner whitespace
C6_Witness ==
    /\ items # Unset /\ C6_Plain(value)
    /\ Len(value) = 3 /\ value[2] = " " /\ value[3] \in Quotes
    /\ C6_Item(items.single) = value

-----------------------------------------------------------------------------
(* C7 *)

\* the number of lines parse_yaml works on
C7_Count == Len(Lines)

C7_CursorsAdvance(n) ==
    LET tr == parsed.trace
    IN  /\ \A i \in 1..Len(tr.returns) :
              /\ tr.returns[i].start < tr.returns[i].index
              /\ tr.returns[i].index <= n
        /\ \A i \in 1..Len(tr.iterations) :
              /\ tr.iterations[i].from < tr.iterations[i].to
              /\ tr.iterations[i].to <= n
        /\ \A i \in 1..Len(tr.reads) : tr.reads[i] < n

\* C7 as claimed: every call that returns and every top-level iteration
\* advances the cursor, within the lines, and every line is visited at most
\* once across the whole call tree.
C7_EveryLineReadOnce ==
    Loaded =>
        LET n == C7_Count
        IN  /\ C7_CursorsAdvance(n)
            /\ \A c \in 0..(n - 1) : Occurrences(parsed.trace.reads, c) <= 1

\* C7 amended: every call that returns and every top-level iteration advances
\* the cursor, within the lines; every line is taken into the tree at most
\* once, but the line that ends a block is read again by each enclosing call,
\* and the reads of one parse number at most twice the lines.
C7_EveryLineTakenOnce ==
    Loaded =>
        LET n == C7_Count
        IN  /\ C7_CursorsAdvance(n)
            /\ \A c \in 0..(n - 1) : Occurrences(parsed.trace.accepted, c) <= 1
            /\ Len(parsed.trace.reads) <= 2 * n

\* a successful parse with nested calls in which one line was read three times
C7_Witness ==
    /\ Loaded /\ parsed.ok
    /\ Len(parsed.trace.returns) >= 2
    /\ \E c \in 0..(C7_Count - 1) :
          /\ Occurrences(parsed.trace.reads, c) = 3
          /\ Occurrences(parsed.trace.accepted, c) = 1

-----------------------------------------------------------------------------
(* C8 *)

RECURSIVE C8_Concat(_)
C8_Concat(seqs) == IF seqs = <<>> THEN <<>> ELSE Head(seqs) \o C8_Concat(Tail(seqs))

\* the rules registered, constructor rules first, then call by call
C8_Registered == C8_Concat(calls)

\* the results of the applicable registered rules, in registration order
C8_Expected(b) ==
    C8_Concat([i \in 1..Len(C8_Registered) |->
                  IF b \in C8_Registered[i].applies
                  THEN [n \in 1..C8_Registered[i].yields |->
                           [rule_id |-> C8_Registered[i].rule_id, batch_id |-> b,
                            number |-> n]]
                  ELSE <<>>])

\* C8: validate returns the concatenation, in registration order, of the
\* results of the registered rules that apply to the batch, and leaves the
\* registered rules as they were; an engine holding one always-applicable
\* rule that yields one result returns one result.
C8_ValidateConcatenates ==
    /\ _rules = C8_Registered
    /\ op = "validate" =>
          /\ results = C8_Expected(batch)
          /\ calls = <<(<<NotNull>>)>> => Len(results) = 1

\* a validate call after two register_rules calls, with a rule left out
C8_Witness ==
    /\ op = "validate"
    /\ Len(calls) = 3
    /\ \E i \in 1..Len(_rules) : batch \notin _rules[i].applies
    /\ Len(results) >= 3

-----------------------------------------------------------------------------
(* C9 *)

\* C9: _parse_scalar returns the interior of a string that begins and ends
\* with the same quote character and has length >= 2, and returns every other
\* string, the one-character strings " and ' included, unchanged.
C9_QuotesStrippedFromLengthTwo ==
    op = "_parse_scalar" =>
        decoded.v = IF /\ Len(value) >= 2
                       /\ value[1] \in Quotes
                       /\ value[Len(value)] = value[1]
                    THEN SubSeq(value, 2, Len(value) - 1)
                    ELSE value

-----------------------------------------------------------------------------
(* C10 *)

\* inside a list item's mapping, the line of lines at cursor c is a key with
\* no inline value and the next line, one level deeper, begins with "-"
C10_DashUnderKeyAt(lines, c) ==
    /\ c + 1 < Len(lines)
    /\ \E i \in 1..Len(parsed.trace.accepted) : parsed.trace.accepted[i] = c
    /\ IndentOf(lines[c + 1]) >= 4
    /\ ~StartsWith(LStrip(lines[c + 1]), "-")
    /\ _parse_mapping_line(lines[c + 1]).ok
    /\ _parse_mapping_line(lines[c + 1]).value = None
    /\ IndentOf(lines[c + 2]) = IndentOf(lines[c + 1]) + 2
    /\ StartsWith(LStrip(lines[c + 2]), "-")
    /\ \E i \in 1..Len(parsed.trace.entered) :
          /\ parsed.trace.entered[i].fn = "_parse_list"
          /\ parsed.trace.entered[i].start < c
          /\ \A j \in (parsed.trace.entered[i].start + 1)..(c + 1) :
                IndentOf(lines[j]) >= 2

C10_DashUnderKey ==
    LET lines == Lines
    IN  \E c \in 0..(Len(lines) - 1) : C10_DashUnderKeyAt(lines, c)

\* C10 as claimed: inside a list item's mapping, a key with no inline value
\* followed by "-" lines one level deeper is parsed into a sequence under
\* that key.
C10_NestedListParsed ==
    (Loaded /\ C10_DashUnderKey) =>
        /\ parsed.ok
        /\ \E i \in 1..Len(Get(parsed.value.v, K_validations).v) :
              HasList(Get(parsed.value.v, K_validations).v[i])

\* C10 amended: the recursion goes one way.  _parse_list is entered only
\* from the root key validations, never from _parse_nested_mapping; a key
\* with no inline value always opens a nested mapping, so "-" lines under it
\* are read as mapping lines (or raise when they hold no colon), and a tree
\* parse_yaml returns holds a sequence only as the value of the root key
\* validations.
C10_ListsOnlyUnderValidations ==
    Loaded =>
        /\ \A i \in 1..Len(parsed.trace.entered) :
              parsed.trace.entered[i].fn = "_parse_list" =>
                  LET opener == Lines[parsed.trace.entered[i].start]
                  IN  /\ IndentOf(opener) = 0
                      /\ _parse_mapping_line(opener).key = K_validations
        /\ parsed.ok =>
              \A i \in 1..Len(parsed.value.v) :
                  LET pair == parsed.value.v[i]
                  IN  IF pair.v.t = "list"
                      THEN /\ pair.k = K_validations
                           /\ \A j \in 1..Len(pair.v.v) : ~HasList(pair.v.v[j])
                      ELSE ~HasList(pair.v)

\* a "-" line under a key of a list item's mapping, parsed without error
C10_Witness == Loaded /\ C10_DashUnderKey /\ parsed.ok

=============================================================================
